---- MODULE Spec2Model ----
(***************************************************************************)
(* Model of the hook-generation pipeline: the ProgressTracker              *)
(* (src/lib/services/progress-tracker.ts), the StreamingService sink       *)
(* (src/lib/services/streaming-service.ts) and the PipelineService         *)
(* orchestrator with its concurrent workers and per-hook judge calls       *)
(* (src/lib/services/pipeline-service.ts).                                 *)
(*                                                                         *)
(* JavaScript runs one task at a time: the code between two awaits is one  *)
(* atomic action here, and every await on an external call (Generator,     *)
(* Judge, blob upload) or on a promise is a point where the other tasks    *)
(* may run.                                                                *)
(***************************************************************************)
EXTENDS Integers, Sequences, FiniteSets, TLC

(***************************************************************************)
(* Bounds of the model.                                                    *)
(***************************************************************************)
\* largest number of selected models in a request (the schema allows 6)
MaxModels == 2
\* largest number of hooks a Generator call returns (the schema asks for 5)
MaxHooks == 2
\* number of mutator calls explored on a free-standing ProgressTracker
MaxCalls == 4
\* number of requests the legacy streaming route serves at the same time
MaxRuns == 2
\* largest number of events a response stream delivers to the client
MaxEvents == 4

(***************************************************************************)
(* Input domains.                                                          *)
(***************************************************************************)
\* model ids of UNIFIED_MODEL_CONFIGS used by the model
ModelIds == {"gpt4o", "o4-mini"}

\* a hook is a string, kept as the sequence of its characters; <<>> is ""
HookValues == {<< >>, <<"H">>}

\* overall scores a successful Judge call may return (callJudgeModel clamps to 1..10)
JudgeScores == {6, 8}

\* analysisOptions of a request: none, or the schema's default three
AnalysisOptionLists == {<< >>, <<"semantic", "psychological", "engagement">>}

\* all sequences over S of length lo..hi
SeqsOf(S, lo, hi) == UNION {[1..n -> S] : n \in lo..hi}

SelectionLists == SeqsOf(ModelIds, 1, MaxModels)

HookLists == SeqsOf(HookValues, 0, MaxHooks)

\* the value of a JavaScript number that is NaN (every real score is >= 0)
NaN == -1

Range(s) == {s[i] : i \in DOMAIN s}

VARIABLES
  selectedModels,        \* requestData.selectedModels
  analysisOptions,       \* requestData.analysisOptions
  phases,                \* ProgressTracker.phases: the completed flag of every step
  currentPhase,          \* ProgressTracker.currentPhase (0-based, as in the code)
  modelProgress,         \* ProgressTracker.modelProgress: modelId -> flags
  lastReportedProgress,  \* ProgressTracker.lastReportedProgress
  sink,                  \* the events enqueued on the stream controller, in order
  closeCount,            \* number of times controller.close() has run
  executePromise,        \* the promise of processor(...): pending, fulfilled, rejected
  pc,                    \* position of PipelineService.execute / createStream
  wpc,                   \* position of each worker (one per index of selectedModels)
  hooks,                 \* per worker: the hooks its Generator call returned
  inflight,              \* per worker: indices of hooks whose Judge call is in flight
  judged,                \* per worker, per hook: outcome of its Judge call
  settleOrder,           \* per worker: hook indices in the order their promises settled
  evaluations,           \* per worker, per hook: state/value of its hook promise
  processModelResult,    \* per worker: what processModel resolved to (none: << >>)
  modelResults,          \* per worker: what its modelPromise resolved to (none: << >>)
  results,               \* the results object of execute: <<key, value>> in insertion order
  finalResults,          \* what compileResults returned (none: << >>)
  calls,                 \* mutator calls made so far on a free-standing tracker
  cancelled,             \* the consumer has cancelled the response stream
  typeErrors,            \* TypeErrors thrown by controller.enqueue / controller.close
  comparativeAnalysisTemp, \* legacy route: (global as any).comparativeAnalysisTemp
  legacyPc,              \* legacy route: position of each concurrent request
  legacyCancelled,       \* legacy route: per request, its consumer has cancelled
  legacyComparative,     \* legacy route: per request, comparativeData of finalResults
  isLoading,             \* client: the isLoading state of useHookGeneration
  clientPc,              \* client: position of handleGenerate
  unread,                \* client: events the response stream has yet to deliver
  currentStep,           \* client: the currentStep state of useHookGeneration
  clientResults          \* client: the results state of useHookGeneration

trackerVars == <<phases, currentPhase, modelProgress, lastReportedProgress>>
requestVars == <<selectedModels, analysisOptions>>
workerVars == <<wpc, hooks, inflight, judged, settleOrder, evaluations,
                processModelResult, modelResults>>
streamVars == <<cancelled, typeErrors>>
legacyVars == <<comparativeAnalysisTemp, legacyPc, legacyCancelled, legacyComparative>>
clientVars == <<isLoading, clientPc, unread, currentStep, clientResults>>
vars == <<requestVars, trackerVars, sink, closeCount, executePromise, pc, workerVars, results,
          finalResults, calls, streamVars, legacyVars, clientVars>>

(***************************************************************************)
(* Exact arithmetic: a JavaScript number that is not an integer is kept    *)
(* as a fraction <<numerator, denominator>>.                               *)
(***************************************************************************)
RECURSIVE Gcd(_, _)
Gcd(a, b) == IF b = 0 THEN a ELSE Gcd(b, a % b)

Norm(a) ==
  LET g == Gcd(a[1], a[2]) IN IF g = 0 THEN a ELSE <<a[1] \div g, a[2] \div g>>

R(n) == <<n, 1>>
\* x and y stand for the values of the operands, each computed once
RAdd(a, b) ==
  CHOOSE r \in {Norm(<<x[1] * y[2] + y[1] * x[2], x[2] * y[2]>>) :
                  x \in {a}, y \in {b}} : TRUE
RMul(a, b) ==
  CHOOSE r \in {Norm(<<x[1] * y[1], x[2] * y[2]>>) : x \in {a}, y \in {b}} : TRUE
RDiv(a, b) ==
  CHOOSE r \in {Norm(<<x[1] * y[2], x[2] * y[1]>>) : x \in {a}, y \in {b}} : TRUE

\* Math.round of a non-negative fraction: the nearest integer, halves going up
MathRound(a) == CHOOSE r \in {(2 * x[1] + x[2]) \div (2 * x[2]) : x \in {a}} : TRUE

Min(a, b) == CHOOSE r \in {IF x < y THEN x ELSE y : x \in {a}, y \in {b}} : TRUE
Max(a, b) == CHOOSE r \in {IF x > y THEN x ELSE y : x \in {a}, y \in {b}} : TRUE

\* the sum of the first n elements of s, added from left to right
RECURSIVE RSumTo(_, _)
RSumTo(s, n) == IF n = 0 THEN R(0) ELSE RAdd(RSumTo(s, n - 1), s[n])

\* v stands for the value of s, computed once
RSum(s) == CHOOSE r \in {RSumTo(v, Len(v)) : v \in {s}} : TRUE

(***************************************************************************)
(* Strings whose characters matter (String.prototype.includes).            *)
(***************************************************************************)
Chars(s) ==
  CASE s = "semantic" -> <<"s", "e", "m", "a", "n", "t", "i", "c">>
    [] s = "psychological" ->
         <<"p", "s", "y", "c", "h", "o", "l", "o", "g", "i", "c", "a", "l">>
    [] s = "engagement" -> <<"e", "n", "g", "a", "g", "e", "m", "e", "n", "t">>
    [] s = "comparative" -> <<"c", "o", "m", "p", "a", "r", "a", "t", "i", "v", "e">>
    [] s = "Comparative" -> <<"C", "o", "m", "p", "a", "r", "a", "t", "i", "v", "e">>
    [] s = " analysis" -> <<" ", "a", "n", "a", "l", "y", "s", "i", "s">>

\* s.includes(sub)
Includes(s, sub) ==
  \E k \in 0..(Len(s) - Len(sub)) : SubSeq(s, k + 1, k + Len(sub)) = sub

(***************************************************************************)
(* ProgressTracker.  A tracker value t is the record of its four fields    *)
(* plus the sink its mutators write to.  Of a step the variable phases     *)
(* keeps the completed flag; names and weights never change and are read   *)
(* from analysisOptions.                                                   *)
(***************************************************************************)
PhaseWeights == <<5, 70, 20, 5>>

PhaseNames == <<"Initialization", "Model Processing", "Analysis", "Finalization">>

\* names of the steps of the Analysis phase, for the given analysisOptions
AnalysisStepNames(options) ==
  [j \in 1..(Len(options) + 1) |->
     IF j <= Len(options) THEN Chars(options[j]) \o Chars(" analysis")
     ELSE Chars("Comparative") \o Chars(" analysis")]

\* weight of every step of phase i (0-based), as fractions
StepWeights(options, i) ==
  CASE i = 0 -> <<R(100)>>
    [] i = 1 -> <<R(40), R(60)>>
    [] i = 2 -> [j \in 1..(Len(options) + 1) |-> RDiv(R(100), R(Len(options) + 1))]
    [] i = 3 -> <<R(100)>>

\* the phases after construction: no step completed
initializePhases(options) ==
  [i \in 1..4 |-> [j \in 1..Len(StepWeights(options, i - 1)) |-> FALSE]]

\* one entry per distinct selected model id, all flags false
initializeModelProgress(models) ==
  [m \in Range(models) |->
     [hooksGenerated |-> FALSE, hooksEvaluated |-> FALSE, completed |-> FALSE]]

NewTracker(models, options) ==
  [phases |-> initializePhases(options),
   currentPhase |-> 0,
   modelProgress |-> initializeModelProgress(models),
   lastReportedProgress |-> 0,
   sink |-> << >>]

\* as ModelScore, but giving the evaluated milestone no score of its own
ModelScoreWithoutEvaluated(mp) ==
  IF mp.completed THEN 100
  ELSE IF mp.hooksGenerated THEN 40
  ELSE 0

ModelScore(mp) ==
  IF mp.completed THEN 100
  ELSE IF mp.hooksEvaluated THEN 90
  ELSE IF mp.hooksGenerated THEN 40
  ELSE 0

RECURSIVE SumOver(_, _)
SumOver(S, f) ==
  IF S = {} THEN 0
  ELSE LET x == CHOOSE y \in S : TRUE IN f[x] + SumOver(S \ {x}, f)

\* as calculateModelProcessingProgress, but averaging over the workers that
\* have reached a milestone
calculateModelProcessingProgressOfStarted(t) ==
  LET ids == {m \in DOMAIN t.modelProgress : ModelScore(t.modelProgress[m]) > 0}
      score == [m \in ids |-> ModelScore(t.modelProgress[m])]
  IN IF Cardinality(ids) = 0 THEN R(0)
     ELSE RDiv(R(SumOver(ids, score)), R(Cardinality(ids)))

calculateModelProcessingProgress(t) ==
  LET ids == DOMAIN t.modelProgress
      score == [m \in ids |-> ModelScore(t.modelProgress[m])]
  IN IF Cardinality(ids) = 0 THEN R(0)
     ELSE RDiv(R(SumOver(ids, score)), R(Cardinality(ids)))

calculatePhaseProgress(t, i) ==
  IF PhaseNames[i + 1] = "Model Processing"
  THEN calculateModelProcessingProgress(t)
  ELSE LET w == StepWeights(analysisOptions, i)
           steps == t.phases[i + 1]
           totalWeight == RSum(w)
           completedWeight ==
             RSum([j \in 1..Len(w) |-> IF steps[j] THEN w[j] ELSE R(0)])
       IN IF totalWeight[1] > 0
          THEN RMul(RDiv(completedWeight, totalWeight), R(100))
          ELSE R(0)

\* the sum of the loop of calculateProgress, before rounding and clamping
TotalProgress(t) ==
  RSum([k \in 1..4 |->
          IF k - 1 < t.currentPhase THEN R(PhaseWeights[k])
          ELSE IF k - 1 = t.currentPhase
          THEN RDiv(RMul(R(PhaseWeights[k]), calculatePhaseProgress(t, k - 1)),
                    R(100))
          ELSE R(0)])

calculateProgress(t) ==
  Min(100, Max(t.lastReportedProgress, MathRound(TotalProgress(t))))

(***************************************************************************)
(* StreamingService: the events written to the stream controller.  A       *)
(* field an event does not carry is Undefined.  step is the fixed text of  *)
(* the message, args the values interpolated into it.                      *)
(***************************************************************************)
Undefined == "undefined"

StreamEvent(type, step, args, progress, modelId, error) ==
  [type |-> type, step |-> step, args |-> args, progress |-> progress,
   modelId |-> modelId, error |-> error]

sendProgress(t, step, args, progress, modelId) ==
  [t EXCEPT !.sink =
     Append(@, StreamEvent("progress", step, args, progress, modelId, Undefined))]

sendError(snk, step, args, error, modelId) ==
  Append(snk, StreamEvent("error", step, args, Undefined, modelId, error))

sendComplete(snk) ==
  Append(snk, StreamEvent("complete", "Analysis complete! Results ready.", << >>,
                          100, Undefined, Undefined))

(***************************************************************************)
(* ProgressTracker mutators, as functions from tracker value to tracker    *)
(* value.                                                                  *)
(***************************************************************************)
\* as sendProgressIfIncreased, with >= for >
sendProgressIfNotDecreased(t, message, args, modelId) ==
  LET Send(this, currentProgress) ==
        IF \/ currentProgress >= this.lastReportedProgress
           \/ currentProgress = 100
           \/ currentProgress = 0
        THEN [sendProgress(this, message, args, currentProgress, modelId)
                EXCEPT !.lastReportedProgress = currentProgress]
        ELSE this
  IN CHOOSE after \in
       UNION {{Send(this, currentProgress) :
                 currentProgress \in {calculateProgress(this)}} : this \in {t}} : TRUE

\* as sendProgressIfIncreased, but never recording what it sent
sendProgressWithoutRecording(t, message, args, modelId) ==
  LET Send(this, currentProgress) ==
        IF \/ currentProgress > this.lastReportedProgress
           \/ currentProgress = 100
           \/ currentProgress = 0
        THEN sendProgress(this, message, args, currentProgress, modelId)
        ELSE this
  IN CHOOSE after \in
       UNION {{Send(this, currentProgress) :
                 currentProgress \in {calculateProgress(this)}} : this \in {t}} : TRUE

\* this stands for the tracker the mutator has updated and currentProgress
\* for the value calculateProgress returns on it, each computed once
sendProgressIfIncreased(t, message, args, modelId) ==
  LET Send(this, currentProgress) ==
        IF \/ currentProgress > this.lastReportedProgress
           \/ currentProgress = 100
           \/ currentProgress = 0
        THEN [sendProgress(this, message, args, currentProgress, modelId)
                EXCEPT !.lastReportedProgress = currentProgress]
        ELSE this
  IN CHOOSE after \in
       UNION {{Send(this, currentProgress) :
                 currentProgress \in {calculateProgress(this)}} : this \in {t}} : TRUE

\* as initComplete, but starting lastReportedProgress afresh
initCompleteResetsLastReported(t) ==
  sendProgressIfIncreased(
    [t EXCEPT !.phases[1][1] = TRUE, !.currentPhase = 1,
              !.lastReportedProgress = 0],
    "Pipeline initialized, starting model processing...", << >>, Undefined)

initComplete(t) ==
  sendProgressIfIncreased(
    [t EXCEPT !.phases[1][1] = TRUE, !.currentPhase = 1],
    "Pipeline initialized, starting model processing...", << >>, Undefined)

\* as modelHooksGenerated, but setting the flag of the next milestone
modelHooksGeneratedSetsEvaluated(t, modelId) ==
  IF modelId \in DOMAIN t.modelProgress
  THEN sendProgressIfIncreased(
         [t EXCEPT !.modelProgress[modelId].hooksEvaluated = TRUE],
         "Generated hooks for", <<modelId>>, modelId)
  ELSE t

modelHooksGenerated(t, modelId) ==
  IF modelId \in DOMAIN t.modelProgress
  THEN sendProgressIfIncreased(
         [t EXCEPT !.modelProgress[modelId].hooksGenerated = TRUE],
         "Generated hooks for", <<modelId>>, modelId)
  ELSE t

\* as modelHooksEvaluated, but announcing the milestone whatever the value
modelHooksEvaluatedAlwaysAnnounced(t, modelId) ==
  IF modelId \in DOMAIN t.modelProgress
  THEN CHOOSE after \in
         {[sendProgress(this, "Evaluated hooks for", <<modelId>>,
                        calculateProgress(this), modelId)
             EXCEPT !.lastReportedProgress = calculateProgress(this)] :
            this \in {[t EXCEPT !.modelProgress[modelId].hooksEvaluated = TRUE]}} : TRUE
  ELSE t

modelHooksEvaluated(t, modelId) ==
  IF modelId \in DOMAIN t.modelProgress
  THEN sendProgressIfIncreased(
         [t EXCEPT !.modelProgress[modelId].hooksEvaluated = TRUE],
         "Evaluated hooks for", <<modelId>>, modelId)
  ELSE t

\* as modelComplete, but setting the flag of the milestone before
modelCompleteSetsEvaluated(t, modelId) ==
  IF modelId \in DOMAIN t.modelProgress
  THEN sendProgressIfIncreased(
         [t EXCEPT !.modelProgress[modelId].hooksEvaluated = TRUE],
         "Completed processing", <<modelId>>, modelId)
  ELSE t

\* as modelComplete, but storing a fresh status that has only completed set
modelCompleteReplacesStatus(t, modelId) ==
  IF modelId \in DOMAIN t.modelProgress
  THEN sendProgressIfIncreased(
         [t EXCEPT !.modelProgress[modelId] =
            [hooksGenerated |-> FALSE, hooksEvaluated |-> FALSE, completed |-> TRUE]],
         "Completed processing", <<modelId>>, modelId)
  ELSE t

modelComplete(t, modelId) ==
  IF modelId \in DOMAIN t.modelProgress
  THEN sendProgressIfIncreased(
         [t EXCEPT !.modelProgress[modelId].completed = TRUE],
         "Completed processing", <<modelId>>, modelId)
  ELSE t

\* as allModelsComplete, but moving on to the phase after Analysis
allModelsCompleteSkipsAnalysis(t) ==
  LET completed == Cardinality({m \in DOMAIN t.modelProgress :
                                  t.modelProgress[m].completed})
      total == Cardinality(DOMAIN t.modelProgress)
  IN sendProgressIfIncreased(
       [t EXCEPT !.phases[2] = [j \in DOMAIN @ |-> TRUE], !.currentPhase = 3],
       "Model processing complete, starting analysis...", <<completed, total>>,
       Undefined)

allModelsComplete(t) ==
  LET completed == Cardinality({m \in DOMAIN t.modelProgress :
                                  t.modelProgress[m].completed})
      total == Cardinality(DOMAIN t.modelProgress)
  IN sendProgressIfIncreased(
       [t EXCEPT !.phases[2] = [j \in DOMAIN @ |-> TRUE], !.currentPhase = 2],
       "Model processing complete, starting analysis...", <<completed, total>>,
       Undefined)

\* index of the first Analysis step whose name includes stepName, 0 if none
FindAnalysisStep(stepName) ==
  LET names == AnalysisStepNames(analysisOptions)
      hits == {j \in DOMAIN names : Includes(names[j], Chars(stepName))}
  IN IF hits = {} THEN 0 ELSE CHOOSE j \in hits : \A k \in hits : j <= k

analysisStepComplete(t, stepName) ==
  LET j == FindAnalysisStep(stepName)
  IN IF j # 0
     THEN sendProgressIfIncreased([t EXCEPT !.phases[3][j] = TRUE],
                                  "Completed", <<stepName>>, Undefined)
     ELSE t

\* as analysisComplete, but moving past the Finalization phase as well
analysisCompletePastFinalization(t) ==
  sendProgressIfIncreased(
    [t EXCEPT !.phases[3] = [j \in DOMAIN @ |-> TRUE], !.currentPhase = 4],
    "Analysis complete, finalizing results...", << >>, Undefined)

analysisComplete(t) ==
  sendProgressIfIncreased(
    [t EXCEPT !.phases[3] = [j \in DOMAIN @ |-> TRUE], !.currentPhase = 3],
    "Analysis complete, finalizing results...", << >>, Undefined)

\* as pipelineComplete, but forcing lastReportedProgress down to 0
pipelineCompleteFromZero(t) ==
  sendProgress(
    [t EXCEPT !.phases[4][1] = TRUE, !.currentPhase = 4,
              !.lastReportedProgress = 0],
    "Pipeline complete!", << >>, 100, Undefined)

pipelineComplete(t) ==
  sendProgress(
    [t EXCEPT !.phases[4][1] = TRUE, !.currentPhase = 4,
              !.lastReportedProgress = 99],
    "Pipeline complete!", << >>, 100, Undefined)

\* the tracker of the current state, with the sink it writes to
Tracker ==
  [phases |-> phases, currentPhase |-> currentPhase,
   modelProgress |-> modelProgress,
   lastReportedProgress |-> lastReportedProgress, sink |-> sink]

\* the next state holds tracker value t (after: its value, computed once)
SetTracker(t) ==
  \E after \in {t} :
    /\ phases' = after.phases
    /\ currentPhase' = after.currentPhase
    /\ modelProgress' = after.modelProgress
    /\ lastReportedProgress' = after.lastReportedProgress
    /\ sink' = after.sink

(***************************************************************************)
(* evaluation-service.ts: the parts of evaluateHook the pipeline depends   *)
(* on.  A call that throws is the record with threw = TRUE.                *)
(***************************************************************************)
\* String.prototype.toUpperCase on one character
ToUpperCase(c) == IF c = "w" THEN "W" ELSE c

\* characters matched by /[^\w\s.,!?$%+-]/
SpecialChars == {"#", "@"}

\* hook.split(' ').length
RECURSIVE WordCount(_)
WordCount(hook) ==
  IF hook = << >> THEN 1
  ELSE (IF Head(hook) = " " THEN 1 ELSE 0) + WordCount(Tail(hook))

\* hook[0] is undefined for the empty string, and undefined.toUpperCase() throws
evaluateEnglishLanguage(hook) ==
  IF Len(hook) = 0 THEN [threw |-> TRUE, value |-> 0]
  ELSE LET hasProperCapitalization == hook[1] = ToUpperCase(hook[1])
           hasReasonableLength == WordCount(hook) >= 3
           noSpecialChars == \A i \in DOMAIN hook : hook[i] \notin SpecialChars
           score == 6 + (IF hasProperCapitalization THEN 1 ELSE 0)
                      + (IF hasReasonableLength THEN 2 ELSE 0)
                      + (IF noSpecialChars THEN 1 ELSE 0)
       IN [threw |-> FALSE, value |-> Min(score, 10)]

evaluateHook(hook) ==
  LET english == evaluateEnglishLanguage(hook)
  IN [threw |-> english.threw,
      value |-> [wordCount |-> WordCount(hook), englishLanguage |-> english.value]]

(***************************************************************************)
(* PipelineService.evaluateHooks: one promise per hook.                    *)
(***************************************************************************)
\* what a Judge call may answer: a score, or an error
JudgeOutcomes ==
  {[ok |-> TRUE, overallScore |-> s] : s \in JudgeScores}
    \cup {[ok |-> FALSE, overallScore |-> 0]}

NotJudged == [returned |-> FALSE, ok |-> FALSE, overallScore |-> 0]
Judged(outcome) ==
  [returned |-> TRUE, ok |-> outcome.ok, overallScore |-> outcome.overallScore]

NoEvaluation ==
  [hook |-> << >>, judgeScore |-> 0, strengths |-> << >>, weaknesses |-> << >>,
   basicEvaluation |-> [wordCount |-> 0, englishLanguage |-> 0]]

PendingPromise == [state |-> "pending", value |-> NoEvaluation]
RejectedPromise == [state |-> "rejected", value |-> NoEvaluation]
Fulfilled(v) == [state |-> "fulfilled", value |-> v]

\* the catch branch of a hook promise: the fallback record, built with evaluateHook
HookCatch(hook) ==
  IF evaluateHook(hook).threw THEN RejectedPromise
  ELSE Fulfilled([hook |-> hook, judgeScore |-> 0, strengths |-> << >>,
                  weaknesses |-> <<"Judge evaluation failed">>,
                  basicEvaluation |-> evaluateHook(hook).value])

\* a hook promise, once its Judge call has answered with outcome
HookPromise(hook, outcome) ==
  IF outcome.ok /\ ~evaluateHook(hook).threw
  THEN Fulfilled([hook |-> hook, judgeScore |-> outcome.overallScore,
                  strengths |-> <<"judge strength">>,
                  weaknesses |-> <<"judge weakness">>,
                  basicEvaluation |-> evaluateHook(hook).value])
  ELSE HookCatch(hook)

\* as SettleAt, but in completion order: p takes the first slot still pending
SettleAtFirstPending(ps, i, p) ==
  LET first == CHOOSE j \in DOMAIN ps :
                 /\ ps[j].state = "pending"
                 /\ \A k \in DOMAIN ps : ps[k].state = "pending" => j <= k
  IN [ps EXCEPT ![first] = p]

\* hookPromises is built by hooks.map: promise i is the one of hook i, and
\* Promise.all hands its value back at index i
SettleAt(ps, i, p) == [ps EXCEPT ![i] = p]

\* Promise.all over the hook promises of one worker
AllFulfilled(ps) == \A i \in DOMAIN ps : ps[i].state = "fulfilled"
AnyRejected(ps) == \E i \in DOMAIN ps : ps[i].state = "rejected"

(***************************************************************************)
(* PipelineService.formatModelResult and the result of a failed worker.    *)
(* Scores with one decimal (averageScore, scoreDifference) are kept in     *)
(* tenths.                                                                 *)
(***************************************************************************)
ModelName(modelId) ==
  CASE modelId = "gpt4o" -> "GPT-4o"
    [] modelId = "o4-mini" -> "O4 Mini"
    [] OTHER -> modelId

RECURSIVE SumScores(_)
SumScores(evals) ==
  IF evals = << >> THEN 0 ELSE Head(evals).judgeScore + SumScores(Tail(evals))

\* Math.round(averageJudgeScore * 10) / 10, in tenths; 0 / 0 is NaN
AverageScore(evals) ==
  IF Len(evals) = 0 THEN NaN
  ELSE MathRound(RMul(RDiv(R(SumScores(evals)), R(Len(evals))), R(10)))

formatModelResult(modelId, evals) ==
  [model |-> ModelName(modelId),
   hooks |-> [i \in DOMAIN evals |->
                [hook |-> evals[i].hook, totalScore |-> evals[i].judgeScore,
                 weaknesses |-> evals[i].weaknesses]],
   averageScore |-> AverageScore(evals),
   error |-> Undefined]

\* as ErrorResult, but dropping the error message
ErrorResultWithoutError(modelId, message) ==
  [model |-> modelId, hooks |-> << >>, averageScore |-> 0, error |-> Undefined]

ErrorResult(modelId, message) ==
  [model |-> modelId, hooks |-> << >>, averageScore |-> 0, error |-> message]

\* messages of the errors a worker can end with
GenerateError == "Failed to generate hooks"
TypeErrorMessage == "Cannot read properties of undefined (reading 'toUpperCase')"

(***************************************************************************)
(* The results object of execute and PipelineService.compileResults.  A    *)
(* JavaScript object lists its string keys in the order they were first    *)
(* set (no model id is an array index), so the object is the sequence of   *)
(* its entries.                                                            *)
(***************************************************************************)
HasKey(obj, key) == \E i \in DOMAIN obj : obj[i].key = key

\* obj[key] = value
ObjectSet(obj, key, value) ==
  IF HasKey(obj, key)
  THEN [i \in DOMAIN obj |->
          IF obj[i].key = key THEN [key |-> key, value |-> value] ELSE obj[i]]
  ELSE Append(obj, [key |-> key, value |-> value])

\* as StoreResults, but keyed by the name the result carries
RECURSIVE StoreResultsByName(_, _)
StoreResultsByName(obj, mrs) ==
  IF mrs = << >> THEN obj
  ELSE StoreResultsByName(ObjectSet(obj, Head(mrs).result.model, Head(mrs).result),
                          Tail(mrs))

\* modelResults.forEach(({ modelId, result }) => results[modelId] = result)
RECURSIVE StoreResults(_, _)
StoreResults(obj, mrs) ==
  IF mrs = << >> THEN obj
  ELSE StoreResults(ObjectSet(obj, Head(mrs).modelId, Head(mrs).result), Tail(mrs))

\* !data.error
NoError(data) == data.error = Undefined \/ data.error = ""

RECURSIVE SelectSeq2(_, _)
SelectSeq2(seq, keep) ==
  IF seq = << >> THEN << >>
  ELSE (IF keep[1] THEN <<Head(seq)>> ELSE << >>)
         \o SelectSeq2(Tail(seq), Tail(keep))

\* the comparator (a, b) => b.score - a.score; sort reads a NaN result as 0
CompareScores(a, b) ==
  IF a.score = NaN \/ b.score = NaN THEN 0 ELSE b.score - a.score

\* as InsertSorted, but x also passes the elements it ties with
RECURSIVE InsertBeforeTies(_, _)
InsertBeforeTies(sorted, x) ==
  IF sorted = << >> THEN <<x>>
  ELSE LET last == sorted[Len(sorted)]
       IN IF CompareScores(last, x) >= 0
          THEN Append(InsertBeforeTies(SubSeq(sorted, 1, Len(sorted) - 1), x), last)
          ELSE Append(sorted, x)

\* x put into the sorted sequence: after every element it does not precede
RECURSIVE InsertSorted(_, _)
InsertSorted(sorted, x) ==
  IF sorted = << >> THEN <<x>>
  ELSE LET last == sorted[Len(sorted)]
       IN IF CompareScores(last, x) > 0
          THEN Append(InsertSorted(SubSeq(sorted, 1, Len(sorted) - 1), x), last)
          ELSE Append(sorted, x)

\* Array.prototype.sort with CompareScores: a stable sort
RECURSIVE SortByScore(_)
SortByScore(seq) ==
  IF seq = << >> THEN << >>
  ELSE InsertSorted(SortByScore(SubSeq(seq, 1, Len(seq) - 1)), seq[Len(seq)])

ModelScores(obj) ==
  SortByScore(
    [i \in 1..Len(SelectSeq2(obj, [j \in DOMAIN obj |-> NoError(obj[j].value)])) |->
       LET e == SelectSeq2(obj, [j \in DOMAIN obj |-> NoError(obj[j].value)])[i]
       IN [modelId |-> e.key, score |-> e.value.averageScore]])

\* Math.round((a - b) * 10) / 10 of two scores, in tenths
ScoreDifference(modelScores) ==
  IF Len(modelScores) >= 2
  THEN IF modelScores[1].score = NaN \/ modelScores[2].score = NaN THEN NaN
       ELSE modelScores[1].score - modelScores[2].score
  ELSE 0

compileResults(obj, models) ==
  LET modelScores == ModelScores(obj)
  IN [results |-> obj,
      comparison |->
        [winner |-> IF Len(modelScores) >= 1 THEN modelScores[1].modelId
                    ELSE models[1],
         scoreDifference |-> ScoreDifference(modelScores),
         modelRankings |-> modelScores],
      analytics |->
        [modelsAnalyzed |-> Cardinality({i \in DOMAIN obj : NoError(obj[i].value)}),
         modelsFailed |-> Cardinality({i \in DOMAIN obj : ~NoError(obj[i].value)})]]

(***************************************************************************)
(* The run: StreamingService.createStream calling PipelineService.execute. *)
(***************************************************************************)
Workers == DOMAIN selectedModels

\* the requests of the legacy route
Runs == 1..MaxRuns

\* the response stream has its consumer attached, nothing was thrown
InitStream ==
  /\ cancelled = FALSE
  /\ typeErrors = 0

\* the legacy route has not been called: the global slot does not exist.
\* The slot and comparativeData are {} when undefined and {r} when they hold
\* the comparison computed by request r.
InitLegacy ==
  /\ comparativeAnalysisTemp = {}
  /\ legacyPc = [r \in Runs |-> "idle"]
  /\ legacyCancelled = [r \in Runs |-> FALSE]
  /\ legacyComparative = [r \in Runs |-> {}]

\* useHookGeneration after its first render: useState(false)
InitClient ==
  /\ isLoading = FALSE
  /\ clientPc = "idle"
  /\ unread = << >>
  /\ currentStep = ""
  /\ clientResults = "null"

InitRequest ==
  /\ selectedModels \in SelectionLists
  /\ analysisOptions \in AnalysisOptionLists

InitTracker ==
  LET t == NewTracker(selectedModels, analysisOptions)
  IN /\ phases = t.phases
     /\ currentPhase = t.currentPhase
     /\ modelProgress = t.modelProgress
     /\ lastReportedProgress = t.lastReportedProgress
     /\ sink = t.sink

InitWorkers ==
  /\ wpc = [w \in Workers |-> "idle"]
  /\ hooks = [w \in Workers |-> << >>]
  /\ inflight = [w \in Workers |-> {}]
  /\ judged = [w \in Workers |-> << >>]
  /\ settleOrder = [w \in Workers |-> << >>]
  /\ evaluations = [w \in Workers |-> << >>]
  /\ processModelResult = [w \in Workers |-> << >>]
  /\ modelResults = [w \in Workers |-> << >>]
  /\ results = << >>
  /\ finalResults = << >>

Init ==
  /\ InitRequest
  /\ InitTracker
  /\ InitWorkers
  /\ closeCount = 0
  /\ executePromise = "pending"
  /\ calls = 0
  /\ pc = "start"
  /\ InitStream
  /\ InitLegacy
  /\ InitClient

\* execute up to its first await: new ProgressTracker, initComplete, then every
\* worker runs up to its Generator call
Execute ==
  /\ pc = "start"
  /\ SetTracker(initComplete(NewTracker(selectedModels, analysisOptions)))
  /\ wpc' = [w \in Workers |-> "generating"]
  /\ pc' = "processModels"
  /\ UNCHANGED <<requestVars, streamVars, legacyVars, clientVars, closeCount, executePromise, hooks, inflight, judged, settleOrder,
                 evaluations, processModelResult, modelResults, results,
                 finalResults, calls>>

\* the Generator call of worker w answers with hooks hs: processModel marks the
\* hooks generated and evaluateHooks starts one Judge call per hook
GeneratorReturns(w, hs) ==
  /\ wpc[w] = "generating"
  /\ hooks' = [hooks EXCEPT ![w] = hs]
  /\ SetTracker(modelHooksGenerated(Tracker, selectedModels[w]))
  /\ evaluations' = [evaluations EXCEPT ![w] = [i \in DOMAIN hs |-> PendingPromise]]
  /\ judged' = [judged EXCEPT ![w] = [i \in DOMAIN hs |-> NotJudged]]
  /\ inflight' = [inflight EXCEPT ![w] = DOMAIN hs]
  /\ wpc' = [wpc EXCEPT ![w] = "evaluating"]
  /\ UNCHANGED <<requestVars, streamVars, legacyVars, clientVars, closeCount, executePromise, pc, settleOrder, processModelResult,
                 modelResults, results, finalResults, calls>>

\* processModel has returned or thrown: its locals and those of evaluateHooks
\* (the hooks, the hook promises and what is recorded about them) are gone
ReleaseLocals(w) ==
  /\ hooks' = [hooks EXCEPT ![w] = << >>]
  /\ evaluations' = [evaluations EXCEPT ![w] = << >>]
  /\ judged' = [judged EXCEPT ![w] = << >>]
  /\ settleOrder' = [settleOrder EXCEPT ![w] = << >>]

\* the catch branch of the worker's try in processModels
WorkerCatch(w, message) ==
  /\ sink' = sendError(sink, "Failed to process", <<selectedModels[w]>>, message,
                       selectedModels[w])
  /\ modelResults' =
       [modelResults EXCEPT ![w] =
          <<[modelId |-> selectedModels[w],
             result |-> ErrorResult(selectedModels[w], message),
             error |-> message]>>]
  /\ wpc' = [wpc EXCEPT ![w] = "failed"]
  /\ ReleaseLocals(w)

\* the Generator call of worker w fails
GeneratorFails(w) ==
  /\ wpc[w] = "generating"
  /\ WorkerCatch(w, GenerateError)
  /\ UNCHANGED <<requestVars, streamVars, legacyVars, clientVars, trackerVars, closeCount, executePromise, pc, inflight,
                 processModelResult, results, finalResults, calls>>

\* the Judge call for hook i of worker w answers; while evaluateHooks still
\* waits, the hook promise settles at its own index
JudgeReturns(w, i, outcome) ==
  /\ i \in inflight[w]
  /\ inflight' = [inflight EXCEPT ![w] = @ \ {i}]
  /\ IF wpc[w] = "evaluating"
     THEN /\ evaluations' =
               [evaluations EXCEPT
                  ![w] = SettleAt(@, i, HookPromise(hooks[w][i], outcome))]
          /\ judged' = [judged EXCEPT ![w][i] = Judged(outcome)]
          /\ settleOrder' = [settleOrder EXCEPT ![w] = Append(@, i)]
     ELSE UNCHANGED <<evaluations, judged, settleOrder>>
  /\ UNCHANGED <<requestVars, streamVars, legacyVars, clientVars, trackerVars, sink, closeCount, executePromise, pc, wpc, hooks,
                 processModelResult, modelResults, results, finalResults, calls>>

\* Promise.all of evaluateHooks is fulfilled: first worker-evaluated notification
EvaluateHooksResume(w) ==
  /\ wpc[w] = "evaluating"
  /\ AllFulfilled(evaluations[w])
  /\ SetTracker(modelHooksEvaluated(Tracker, selectedModels[w]))
  /\ wpc' = [wpc EXCEPT ![w] = "evaluated"]
  /\ UNCHANGED <<requestVars, streamVars, legacyVars, clientVars, closeCount, executePromise, pc, hooks, inflight, judged, settleOrder,
                 evaluations, processModelResult, modelResults, results,
                 finalResults, calls>>

\* Promise.all of evaluateHooks is rejected by the first rejected hook promise:
\* evaluateHooks and processModel throw, the worker's catch branch runs
EvaluateHooksThrows(w) ==
  /\ wpc[w] = "evaluating"
  /\ AnyRejected(evaluations[w])
  /\ WorkerCatch(w, TypeErrorMessage)
  /\ UNCHANGED <<requestVars, streamVars, legacyVars, clientVars, trackerVars, closeCount, executePromise, pc, inflight,
                 processModelResult, results, finalResults, calls>>

\* processModel resumes after evaluateHooks: second worker-evaluated
\* notification, then formatModelResult
ProcessModelResume(w) ==
  /\ wpc[w] = "evaluated"
  /\ SetTracker(modelHooksEvaluated(Tracker, selectedModels[w]))
  /\ processModelResult' =
       [processModelResult EXCEPT ![w] =
          <<formatModelResult(selectedModels[w],
                              [i \in DOMAIN evaluations[w] |->
                                 evaluations[w][i].value])>>]
  /\ wpc' = [wpc EXCEPT ![w] = "formatted"]
  /\ ReleaseLocals(w)
  /\ UNCHANGED <<requestVars, streamVars, legacyVars, clientVars, closeCount, executePromise, pc, inflight, modelResults, results,
                 finalResults, calls>>

\* the worker's callback resumes after processModel: modelComplete, return
ModelComplete(w) ==
  /\ wpc[w] = "formatted"
  /\ SetTracker(modelComplete(Tracker, selectedModels[w]))
  /\ modelResults' =
       [modelResults EXCEPT ![w] =
          <<[modelId |-> selectedModels[w], result |-> processModelResult[w][1],
             error |-> Undefined]>>]
  /\ wpc' = [wpc EXCEPT ![w] = "done"]
  /\ UNCHANGED <<requestVars, streamVars, legacyVars, clientVars, closeCount, executePromise, pc, hooks, inflight, judged, settleOrder,
                 evaluations, processModelResult, results, finalResults, calls>>

\* as ProcessModelsResume, but waiting for every worker to succeed
ProcessModelsResumeWhenAllSucceeded ==
  /\ pc = "processModels"
  /\ \A w \in Workers : wpc[w] = "done"
  /\ results' = StoreResults(results, [w \in Workers |-> modelResults[w][1]])
  /\ SetTracker(allModelsComplete(Tracker))
  /\ pc' = "runAnalysis"
  /\ UNCHANGED <<requestVars, streamVars, legacyVars, clientVars, closeCount, executePromise, workerVars, finalResults, calls>>

\* Promise.all over the workers is fulfilled: store results, allModelsComplete
ProcessModelsResume ==
  /\ pc = "processModels"
  /\ \A w \in Workers : wpc[w] \in {"done", "failed"}
  /\ results' = StoreResults(results, [w \in Workers |-> modelResults[w][1]])
  /\ SetTracker(allModelsComplete(Tracker))
  /\ pc' = "runAnalysis"
  /\ UNCHANGED <<requestVars, streamVars, legacyVars, clientVars, closeCount, executePromise, workerVars, finalResults, calls>>

\* analysisStepComplete(name) when analysisOptions.includes(name)
AnalysisStepIfSelected(t, name) ==
  IF name \in Range(analysisOptions) THEN analysisStepComplete(t, name) ELSE t

runAnalysis(t) ==
  analysisComplete(
    analysisStepComplete(
      AnalysisStepIfSelected(
        AnalysisStepIfSelected(
          AnalysisStepIfSelected(t, "semantic"),
          "psychological"),
        "engagement"),
      "comparative"))

RunAnalysis ==
  /\ pc = "runAnalysis"
  /\ SetTracker(runAnalysis(Tracker))
  /\ pc' = "compileResults"
  /\ UNCHANGED <<requestVars, streamVars, legacyVars, clientVars, closeCount, executePromise, workerVars, results, finalResults, calls>>

\* as CompileResults, but without the call of pipelineComplete
CompileResultsSilently ==
  /\ pc = "compileResults"
  /\ finalResults' = <<compileResults(results, selectedModels)>>
  /\ pc' = "put"
  /\ UNCHANGED <<requestVars, streamVars, legacyVars, clientVars, trackerVars, sink, closeCount, executePromise, workerVars,
                 results, calls>>

CompileResults ==
  /\ pc = "compileResults"
  /\ finalResults' = <<compileResults(results, selectedModels)>>
  /\ SetTracker(pipelineComplete(Tracker))
  /\ pc' = "put"
  /\ UNCHANGED <<requestVars, streamVars, legacyVars, clientVars, closeCount, executePromise, workerVars, results, calls>>

\* the blob upload succeeds: sendComplete, execute is fulfilled
PutReturns ==
  /\ pc = "put"
  /\ sink' = sendComplete(sink)
  /\ executePromise' = "fulfilled"
  /\ pc' = "finally"
  /\ UNCHANGED <<requestVars, streamVars, legacyVars, clientVars, trackerVars, closeCount, workerVars, results,
                 finalResults, calls>>

\* as PutFails, without the catch handler
PutFailsUncaught ==
  /\ pc = "put"
  /\ executePromise' = "rejected"
  /\ pc' = "finally"
  /\ UNCHANGED <<requestVars, streamVars, legacyVars, clientVars, trackerVars, sink, closeCount, workerVars, results,
                 finalResults, calls>>

\* the blob upload fails: execute is rejected and the catch handler of
\* createStream sends the terminal error
PutFails ==
  /\ pc = "put"
  /\ sink' = sendError(sink, "Pipeline failed", << >>, "put failed", Undefined)
  /\ executePromise' = "rejected"
  /\ pc' = "finally"
  /\ UNCHANGED <<requestVars, streamVars, legacyVars, clientVars, trackerVars, closeCount, workerVars, results,
                 finalResults, calls>>

\* as Close, but as a then handler: it runs only when execute was fulfilled
CloseWhenFulfilled ==
  /\ pc = "finally"
  /\ executePromise = "fulfilled"
  /\ closeCount' = closeCount + 1
  /\ pc' = "closed"
  /\ UNCHANGED <<requestVars, streamVars, legacyVars, clientVars, trackerVars, sink, executePromise, workerVars,
                 results, finalResults, calls>>

\* the finally handler of createStream
Close ==
  /\ pc = "finally"
  /\ closeCount' = closeCount + 1
  /\ pc' = "closed"
  /\ UNCHANGED <<requestVars, streamVars, legacyVars, clientVars, trackerVars, sink, executePromise, workerVars,
                 results, finalResults, calls>>

Next ==
  \/ Execute
  \/ \E w \in Workers, hs \in HookLists : GeneratorReturns(w, hs)
  \/ \E w \in Workers : GeneratorFails(w)
  \/ \E w \in Workers, i \in 1..MaxHooks, outcome \in JudgeOutcomes :
       JudgeReturns(w, i, outcome)
  \/ \E w \in Workers : EvaluateHooksResume(w)
  \/ \E w \in Workers : EvaluateHooksThrows(w)
  \/ \E w \in Workers : ProcessModelResume(w)
  \/ \E w \in Workers : ModelComplete(w)
  \/ ProcessModelsResume
  \/ RunAnalysis
  \/ CompileResults
  \/ PutReturns
  \/ PutFails
  \/ Close

Spec == Init /\ [][Next]_vars

(***************************************************************************)
(* A free-standing ProgressTracker: its mutators called in any order, with *)
(* any model id and any step name, up to MaxCalls calls.                   *)
(***************************************************************************)
StepNameArgs == {"semantic", "psychological", "engagement", "comparative"}

InitFree ==
  /\ InitRequest
  /\ InitTracker
  /\ InitWorkers
  /\ closeCount = 0
  /\ executePromise = "pending"
  /\ calls = 0
  /\ pc = "tracker"
  /\ InitStream
  /\ InitLegacy
  /\ InitClient

\* one mutator call that leaves the tracker as t
Call(t) ==
  /\ pc = "tracker"
  /\ calls < MaxCalls
  /\ calls' = calls + 1
  /\ SetTracker(t)
  /\ UNCHANGED <<requestVars, streamVars, legacyVars, clientVars, closeCount, executePromise, pc, workerVars, results, finalResults>>

CallInitComplete == Call(initComplete(Tracker))
CallModelHooksGenerated(m) == Call(modelHooksGenerated(Tracker, m))
CallModelHooksEvaluated(m) == Call(modelHooksEvaluated(Tracker, m))
CallModelComplete(m) == Call(modelComplete(Tracker, m))
CallAllModelsComplete == Call(allModelsComplete(Tracker))
CallAnalysisStepComplete(name) == Call(analysisStepComplete(Tracker, name))
CallAnalysisComplete == Call(analysisComplete(Tracker))
CallPipelineComplete == Call(pipelineComplete(Tracker))

NextFree ==
  \/ CallInitComplete
  \/ \E m \in ModelIds : CallModelHooksGenerated(m)
  \/ \E m \in ModelIds : CallModelHooksEvaluated(m)
  \/ \E m \in ModelIds : CallModelComplete(m)
  \/ CallAllModelsComplete
  \/ \E name \in StepNameArgs : CallAnalysisStepComplete(name)
  \/ CallAnalysisComplete
  \/ CallPipelineComplete

TrackerSpec == InitFree /\ [][NextFree]_vars

(***************************************************************************)
(* Reading the sink.                                                       *)
(***************************************************************************)
IsProgress(e) == e.type = "progress"
IsComplete(e) == e.type = "complete"
IsPipelineFailed(e) == e.type = "error" /\ e.step = "Pipeline failed"
IsTerminal(e) == IsComplete(e) \/ IsPipelineFailed(e)

ProgressIndices == {i \in DOMAIN sink : IsProgress(sink[i])}
TerminalIndices == {i \in DOMAIN sink : IsTerminal(sink[i])}

(***************************************************************************)
(* C1.  Whatever mutators are called on one ProgressTracker, in whatever   *)
(* order and however often, the progress values written to the sink never  *)
(* decrease from one progress message to the next.                         *)
(***************************************************************************)
C1_ProgressNonDecreasing ==
  \A i, j \in ProgressIndices : i < j => sink[i].progress <= sink[j].progress

\* a write after pipelineComplete, and a write suppressed for not being higher
C1_Witness ==
  /\ pc = "tracker"
  /\ currentPhase = 1
  /\ lastReportedProgress = 99
  /\ Len(sink) >= 3
  /\ sink[Len(sink)].progress = 100
  /\ sink[Len(sink) - 1].progress < 100

(***************************************************************************)
(* Reading the run.                                                        *)
(***************************************************************************)
\* the run has stored the workers' results (processModels is past its await)
ResultsStored == pc \in {"runAnalysis", "compileResults", "put", "finally", "closed"}

Failed(w) == wpc[w] = "failed"
Succeeded(w) == wpc[w] = "done"

Distinct(seq) == \A i, j \in DOMAIN seq : seq[i] = seq[j] => i = j

\* index of the first selection of modelId
FirstSelected(modelId) ==
  CHOOSE i \in DOMAIN selectedModels :
    /\ selectedModels[i] = modelId
    /\ \A j \in DOMAIN selectedModels : selectedModels[j] = modelId => i <= j

\* indices of the entries of obj under key
EntriesOf(obj, key) == {i \in DOMAIN obj : obj[i].key = key}

(***************************************************************************)
(* C2.  Once the sink is closed exactly one terminal message has been      *)
(* written: the complete message when execute was fulfilled, the           *)
(* "Pipeline failed" error when it was rejected, however many workers      *)
(* failed.  No state holds two terminal messages.                          *)
(***************************************************************************)
C2_OneTerminalMessage ==
  /\ Cardinality(TerminalIndices) <= 1
  /\ closeCount > 0 =>
       /\ Cardinality(TerminalIndices) = 1
       /\ \A i \in TerminalIndices :
            /\ executePromise = "fulfilled" => IsComplete(sink[i])
            /\ executePromise = "rejected" => IsPipelineFailed(sink[i])
            /\ executePromise # "pending"

\* closed after a complete message, in a run of two workers that both failed
C2_Witness ==
  /\ closeCount = 1
  /\ Len(selectedModels) = 2
  /\ \A w \in Workers : Failed(w)
  /\ \E i \in TerminalIndices : IsComplete(sink[i])

C4_WorkerIsolation ==
  (ResultsStored /\ Distinct(selectedModels)) =>
    /\ Len(results) = Len(selectedModels)
    /\ \A w \in Workers :
         /\ Cardinality(EntriesOf(results, selectedModels[w])) = 1
         /\ \A i \in EntriesOf(results, selectedModels[w]) :
              /\ Failed(w) <=> ~NoError(results[i].value)
              /\ Succeeded(w) => results[i].value = processModelResult[w][1]
    /\ Len(finalResults) = 1 => finalResults[1].results = results

\* results compiled from one failed and one successful worker
C4_Witness ==
  /\ Len(finalResults) = 1
  /\ Distinct(selectedModels)
  /\ \E w \in Workers : Failed(w)
  /\ \E w \in Workers : Succeeded(w) /\ Len(processModelResult[w][1].hooks) = 2

(***************************************************************************)
(* C5 (as claimed).  When the phase index is Analysis or later, every      *)
(* worker has returned and no Generator or Judge call of the run is still  *)
(* in flight.                                                              *)
(***************************************************************************)
C5_NoCallInFlightAtAnalysis ==
  (pc # "tracker" /\ currentPhase >= 2) =>
    \A w \in Workers : wpc[w] \in {"done", "failed"} /\ inflight[w] = {}

(***************************************************************************)
(* C6 (as claimed).  When all-workers-complete has been called, every      *)
(* WorkerStatus entry has completed = true.                                *)
(***************************************************************************)
C6_AllCompletedAtAnalysis ==
  (pc # "tracker" /\ currentPhase >= 2) =>
    \A m \in DOMAIN modelProgress : modelProgress[m].completed

(***************************************************************************)
(* C6 (amended).  A failed worker does not mark its entry: when            *)
(* all-workers-complete has been called, an entry has completed = true     *)
(* exactly when a worker of its model key returned successfully.           *)
(***************************************************************************)
C6_CompletedIffSucceeded ==
  (pc # "tracker" /\ currentPhase >= 2) =>
    \A m \in DOMAIN modelProgress :
      modelProgress[m].completed <=>
        \E w \in Workers : selectedModels[w] = m /\ Succeeded(w)

\* all-workers-complete was called after one worker failed and one succeeded
C6_Witness ==
  /\ pc = "runAnalysis"
  /\ Distinct(selectedModels)
  /\ \E w \in Workers : Failed(w)
  /\ \E w \in Workers : Succeeded(w)

(***************************************************************************)
(* C7 (as claimed).  A failure while evaluating one candidate never fails  *)
(* the batch: no hook promise is rejected, a candidate whose evaluation    *)
(* failed gets the fallback record, and every other candidate keeps the    *)
(* result of its own Judge call.                                           *)
(***************************************************************************)
C7_CandidateFailureIsolated ==
  \A w \in Workers : \A i \in DOMAIN evaluations[w] :
    /\ evaluations[w][i].state # "rejected"
    /\ evaluations[w][i].state = "fulfilled" =>
         IF judged[w][i].ok
         THEN /\ evaluations[w][i].value.judgeScore = judged[w][i].overallScore
              /\ evaluations[w][i].value.weaknesses # <<"Judge evaluation failed">>
         ELSE /\ evaluations[w][i].value.judgeScore = 0
              /\ evaluations[w][i].value.strengths = << >>
              /\ evaluations[w][i].value.weaknesses = <<"Judge evaluation failed">>

(***************************************************************************)
(* C8.  When evaluateHooks returns, it returns one evaluation per hook,    *)
(* and the evaluation at index i is the one of hook i: it carries hook i   *)
(* and the answer of the Judge call made for hook i (its score, or the     *)
(* fallback when that call failed), in whatever order the calls answered.  *)
(***************************************************************************)
C8_PositionalEvaluations ==
  \A w \in Workers :
    wpc[w] = "evaluated" =>
      /\ Len(evaluations[w]) = Len(hooks[w])
      /\ \A i \in DOMAIN hooks[w] :
           /\ evaluations[w][i].state = "fulfilled"
           /\ evaluations[w][i].value.hook = hooks[w][i]
           /\ judged[w][i].returned
           /\ evaluations[w][i].value.judgeScore =
                (IF judged[w][i].ok THEN judged[w][i].overallScore ELSE 0)

\* evaluateHooks returned after the Judge answered for hook 2 before hook 1,
\* with different scores
C8_Witness ==
  \E w \in Workers :
    /\ wpc[w] = "evaluated"
    /\ settleOrder[w] = <<2, 1>>
    /\ judged[w][1].ok /\ judged[w][2].ok
    /\ judged[w][1].overallScore # judged[w][2].overallScore

(***************************************************************************)
(* C9.  In every state of a run each WorkerStatus has generated before     *)
(* evaluated before completed: completed implies evaluated, and evaluated  *)
(* implies generated.                                                      *)
(***************************************************************************)
C9_MilestoneOrder ==
  pc # "tracker" =>
    \A m \in DOMAIN modelProgress :
      /\ modelProgress[m].completed => modelProgress[m].hooksEvaluated
      /\ modelProgress[m].hooksEvaluated => modelProgress[m].hooksGenerated

\* one worker completed while the other has only generated
C9_Witness ==
  /\ pc = "processModels"
  /\ \E m \in DOMAIN modelProgress : modelProgress[m].completed
  /\ \E m \in DOMAIN modelProgress :
       modelProgress[m].hooksGenerated /\ ~modelProgress[m].hooksEvaluated

(***************************************************************************)
(* C10.  In the compiled result, of two ranked models with the same        *)
(* (numeric) average score the one selected first ranks first, and the     *)
(* winner is the first of the ranking, whatever order the workers finished *)
(* in.                                                                     *)
(***************************************************************************)
C10_TiesKeepSelectionOrder ==
  Len(finalResults) = 1 =>
    LET ranking == finalResults[1].comparison.modelRankings
    IN /\ \A p, q \in DOMAIN ranking :
            (/\ ranking[p].score = ranking[q].score
             /\ ranking[p].score # NaN
             /\ FirstSelected(ranking[p].modelId) < FirstSelected(ranking[q].modelId))
              => p < q
       /\ Len(ranking) >= 1 => finalResults[1].comparison.winner = ranking[1].modelId

\* index in the sink of the message modelComplete wrote for modelId, 0 if none
CompletedAt(modelId) ==
  LET hits == {i \in DOMAIN sink :
                 /\ IsProgress(sink[i])
                 /\ sink[i].step = "Completed processing"
                 /\ sink[i].modelId = modelId}
  IN IF hits = {} THEN 0 ELSE CHOOSE i \in hits : TRUE

\* a tie at the top in which the model selected second finished first
C10_Witness ==
  /\ Len(finalResults) = 1
  /\ Len(finalResults[1].comparison.modelRankings) = 2
  /\ finalResults[1].comparison.scoreDifference = 0
  /\ finalResults[1].comparison.modelRankings[1].score > 0
  /\ CompletedAt(selectedModels[1]) > 0
  /\ CompletedAt(selectedModels[2]) > 0
  /\ CompletedAt(selectedModels[2]) < CompletedAt(selectedModels[1])

(***************************************************************************)
(* Reading the compiled result.                                            *)
(***************************************************************************)
\* a >= b on JavaScript numbers: false when either is NaN
Geq(a, b) == a # NaN /\ b # NaN /\ a >= b

\* the aggregate score of successful worker w
WorkerScore(w) == processModelResult[w][1].averageScore

AllErrorResult(final) ==
  /\ \A w \in Workers :
       /\ EntriesOf(final.results, selectedModels[w]) # {}
       /\ \A i \in EntriesOf(final.results, selectedModels[w]) :
            ~NoError(final.results[i].value)
  /\ \A i \in DOMAIN final.results : final.results[i].key \in Range(selectedModels)
  /\ final.comparison.modelRankings = << >>
  /\ final.comparison.scoreDifference = 0
  /\ final.comparison.winner = selectedModels[1]

LiveHookLists == {<< >>, <<<<"H">>>>, <<<< >>, <<"H">>>>}

LiveJudgeOutcomes == {o \in JudgeOutcomes : ~o.ok \/ o.overallScore = 8}

\* the steps the event loop takes on its own
Continuations ==
  \/ Execute
  \/ \E w \in Workers : EvaluateHooksResume(w)
  \/ \E w \in Workers : EvaluateHooksThrows(w)
  \/ \E w \in Workers : ProcessModelResume(w)
  \/ \E w \in Workers : ModelComplete(w)
  \/ ProcessModelsResume
  \/ RunAnalysis
  \/ CompileResults
  \/ Close

\* a Generator or Judge call returns
CallReturns ==
  \/ \E w \in Workers, hs \in LiveHookLists : GeneratorReturns(w, hs)
  \/ \E w \in Workers : GeneratorFails(w)
  \/ \E w \in Workers, i \in 1..MaxHooks, outcome \in LiveJudgeOutcomes :
       JudgeReturns(w, i, outcome)

\* the upload of the result returns
UploadReturns == PutReturns \/ PutFails

LiveNext == Continuations \/ CallReturns \/ UploadReturns

LiveSpec ==
  Init /\ [][LiveNext]_vars /\ WF_vars(Continuations) /\ WF_vars(CallReturns)

\* the terminal message is written and the sink is closed
TerminalWrittenAndClosed ==
  closeCount = 1 /\ Len(sink) > 0 /\ IsTerminal(sink[Len(sink)])

NewlyComputed ==
  calculateProgress([phases |-> phases', currentPhase |-> currentPhase',
                     modelProgress |-> modelProgress',
                     lastReportedProgress |-> lastReportedProgress,
                     sink |-> sink])

\* this step wrote one progress message
Wrote ==
  /\ Len(sink') = Len(sink) + 1
  /\ SubSeq(sink', 1, Len(sink)) = sink
  /\ IsProgress(sink'[Len(sink')])

\* the rule of sendProgressIfIncreased, read off a step
WriteRule ==
  /\ Wrote <=> \/ NewlyComputed > lastReportedProgress
               \/ NewlyComputed = 100
               \/ NewlyComputed = 0
  /\ Wrote => /\ sink'[Len(sink')].progress = NewlyComputed
              /\ lastReportedProgress' = NewlyComputed
  /\ ~Wrote => sink' = sink /\ lastReportedProgress' = lastReportedProgress

\* this step is a call that names a model key without WorkerStatus or a step
\* name that no Analysis step includes: the mutator returns at once
CallWithoutTarget ==
  \/ \E m \in ModelIds \ DOMAIN modelProgress :
       \/ CallModelHooksGenerated(m)
       \/ CallModelHooksEvaluated(m)
       \/ CallModelComplete(m)
  \/ \E name \in StepNameArgs :
       FindAnalysisStep(name) = 0 /\ CallAnalysisStepComplete(name)

(***************************************************************************)
(* C14 (as claimed).  Every mutator call writes a progress message if and  *)
(* only if the value it computes is above lastReportedProgress or is 0 or  *)
(* 100; when it writes, lastReportedProgress becomes the written value,    *)
(* and when it does not, lastReportedProgress is unchanged.                *)
(***************************************************************************)
C14_WriteRuleEveryMutator == [][pc = "tracker" => WriteRule]_vars

(***************************************************************************)
(* C14 (amended).  The rule holds for every mutator call except two:       *)
(* pipelineComplete always writes 100 and leaves lastReportedProgress at   *)
(* 99, and a call that finds no WorkerStatus for its model key, or no      *)
(* Analysis step for its step name, writes nothing and changes nothing.    *)
(***************************************************************************)
C14_WriteRule ==
  [][pc = "tracker" =>
       IF CallPipelineComplete
       THEN /\ Wrote
            /\ sink'[Len(sink')].progress = 100
            /\ lastReportedProgress' = 99
       ELSE IF CallWithoutTarget
       THEN UNCHANGED <<trackerVars, sink>>
       ELSE WriteRule]_vars

\* a tracker after three calls of which the last, a repeated worker-generated
\* notification, wrote nothing
C14_Witness ==
  /\ pc = "tracker"
  /\ calls = 3
  /\ Len(sink) = 2
  /\ currentPhase = 1
  /\ Cardinality(DOMAIN modelProgress) = 2
  /\ \E m \in DOMAIN modelProgress :
       /\ modelProgress[m].hooksGenerated /\ ~modelProgress[m].hooksEvaluated
       /\ \A n \in DOMAIN modelProgress \ {m} : ~modelProgress[n].hooksGenerated
  /\ lastReportedProgress = sink[2].progress
  /\ lastReportedProgress = 19

\* indices of the progress messages that carry the value 100
HundredIndices == {i \in ProgressIndices : sink[i].progress = 100}

(***************************************************************************)
(* C15.  In a run, no progress message carries 100 before compileResults   *)
(* calls pipelineComplete; once it has, exactly one progress message       *)
(* carries 100, it is the "Pipeline complete!" message of pipelineComplete *)
(* and no progress message follows it.                                     *)
(***************************************************************************)
C15_OneHundredAtTheEnd ==
  pc # "tracker" =>
    /\ Len(finalResults) = 0 => HundredIndices = {}
    /\ Len(finalResults) = 1 =>
         /\ Cardinality(HundredIndices) = 1
         /\ \A i \in HundredIndices :
              /\ sink[i].step = "Pipeline complete!"
              /\ \A j \in ProgressIndices : j <= i

\* a closed run of two workers, one failed and one successful
C15_Witness ==
  /\ pc = "closed"
  /\ Len(selectedModels) = 2
  /\ \E w \in Workers : Failed(w)
  /\ \E w \in Workers : Succeeded(w)
  /\ Cardinality(HundredIndices) = 1
  /\ IsComplete(sink[Len(sink)])

(***************************************************************************)
(* C16.  Whatever mutators are called on one ProgressTracker, in whatever  *)
(* order and however often, no progress value other than 0 or 100 is       *)
(* carried by more than one progress message of the sink.                  *)
(***************************************************************************)
C16_NoValueWrittenTwice ==
  \A i, j \in ProgressIndices :
    (i < j /\ sink[i].progress = sink[j].progress) => sink[i].progress \in {0, 100}

\* every call made, one of them written nothing: a value strictly between 0
\* and 100 written once, then 100 written twice
C16_Witness ==
  /\ pc = "tracker"
  /\ calls = MaxCalls
  /\ Len(sink) = 3
  /\ sink[1].progress \notin {0, 100}
  /\ sink[2].progress = 100
  /\ sink[3].progress = 100

\* the highest progress value written to the sink so far, 0 before the first
HighestWritten ==
  IF ProgressIndices = {} THEN 0
  ELSE CHOOSE v \in {sink[i].progress : i \in ProgressIndices} :
         \A i \in ProgressIndices : sink[i].progress <= v

(***************************************************************************)
(* C17 (as claimed).  lastReportedProgress never decreases, and after      *)
(* every mutator call it equals the highest progress value written to the  *)
(* sink so far.                                                            *)
(***************************************************************************)
C17_LastReportedIsHighestWritten ==
  /\ [](lastReportedProgress = HighestWritten)
  /\ [][lastReportedProgress' >= lastReportedProgress]_vars

(***************************************************************************)
(* C17 (amended).  lastReportedProgress decreases only in a call of        *)
(* pipelineComplete, and then from 100 to 99; after every mutator call it  *)
(* equals the highest progress value written so far (0 when nothing was    *)
(* written), or it is 99 while the highest value written is 100.           *)
(***************************************************************************)
C17_LastReportedButForPipelineComplete ==
  /\ [](\/ lastReportedProgress = HighestWritten
        \/ lastReportedProgress = 99 /\ HighestWritten = 100)
  /\ [][lastReportedProgress' < lastReportedProgress =>
          /\ CallPipelineComplete
          /\ lastReportedProgress = 100
          /\ lastReportedProgress' = 99]_vars

\* pipelineComplete, then a mutator that wrote 100 through
\* sendProgressIfIncreased, then pipelineComplete again: lastReportedProgress
\* went 99, 100, 99
C17_Witness ==
  /\ pc = "tracker"
  /\ calls = 3
  /\ Len(sink) = 3
  /\ \A i \in 1..3 : sink[i].progress = 100
  /\ sink[1].step = "Pipeline complete!"
  /\ sink[2].step # "Pipeline complete!"
  /\ sink[3].step = "Pipeline complete!"
  /\ lastReportedProgress = 99

(***************************************************************************)
(* The progress formula as the specification words it, over the current    *)
(* state.                                                                  *)
(***************************************************************************)
\* 100 if completed, else 90 if evaluated, else 40 if generated, else 0
StatedWorkerScore(m) ==
  CASE modelProgress[m].completed -> 100
    [] ~modelProgress[m].completed /\ modelProgress[m].hooksEvaluated -> 90
    [] /\ ~modelProgress[m].completed /\ ~modelProgress[m].hooksEvaluated
       /\ modelProgress[m].hooksGenerated -> 40
    [] OTHER -> 0

\* phaseProgress of phase i (0-based)
StatedPhaseProgress(i) ==
  IF i = 1
  THEN LET ids == DOMAIN modelProgress
       IN RDiv(R(SumOver(ids, [m \in ids |-> StatedWorkerScore(m)])),
               R(Cardinality(ids)))
  ELSE LET w == StepWeights(analysisOptions, i)
           done == {j \in DOMAIN w : phases[i + 1][j]}
           WeightOf(S) == RSum([j \in DOMAIN w |-> IF j \in S THEN w[j] ELSE R(0)])
       IN RMul(RDiv(WeightOf(done), WeightOf(DOMAIN w)), R(100))

\* S: full weights before the current phase, the current phase in part
StatedSum ==
  LET before == {i \in 0..3 : i < currentPhase}
      current == {i \in 0..3 : i = currentPhase}
      Part(i) == RDiv(RMul(R(PhaseWeights[i + 1]), StatedPhaseProgress(i)), R(100))
  IN RAdd(R(SumOver(before, [i \in before |-> PhaseWeights[i + 1]])),
          IF current = {} THEN R(0) ELSE Part(currentPhase))

(***************************************************************************)
(* C18.  In every state the value calculateProgress returns is             *)
(* min(100, max(lastReportedProgress, round(S))), S being the full weights *)
(* of the phases before the current one plus weight * phaseProgress / 100  *)
(* of the current one, and it is an integer from 0 to 100.                 *)
(***************************************************************************)
C18_ComputedProgress ==
  LET computed == calculateProgress(Tracker)
      rounded == MathRound(StatedSum)
      floor == IF rounded > lastReportedProgress THEN rounded
               ELSE lastReportedProgress
  IN /\ computed = IF floor < 100 THEN floor ELSE 100
     /\ computed \in 0..100

\* in WorkerProcessing with two workers, one evaluated and one not started:
\* S = 5 + 70 * 45 / 100 = 36.5, rounded to 37 and written
C18_Witness ==
  /\ pc = "tracker"
  /\ currentPhase = 1
  /\ Cardinality(DOMAIN modelProgress) = 2
  /\ \E m \in DOMAIN modelProgress :
       /\ modelProgress[m].hooksEvaluated
       /\ ~modelProgress[m].completed
       /\ \A n \in DOMAIN modelProgress \ {m} :
            /\ ~modelProgress[n].hooksGenerated
            /\ ~modelProgress[n].hooksEvaluated
            /\ ~modelProgress[n].completed
  /\ StatedSum = <<73, 2>>
  /\ calculateProgress(Tracker) = 37
  /\ lastReportedProgress = 37

(***************************************************************************)
(* C19.  No mutator call resets a WorkerStatus flag that is true, and      *)
(* none adds or removes a WorkerStatus entry: the entries stay those of    *)
(* the selected model ids.                                                 *)
(***************************************************************************)
C19_FlagsNeverReset ==
  /\ [](DOMAIN modelProgress = Range(selectedModels))
  /\ [][/\ DOMAIN modelProgress' = DOMAIN modelProgress
        /\ \A m \in DOMAIN modelProgress :
             /\ modelProgress[m].hooksGenerated => modelProgress'[m].hooksGenerated
             /\ modelProgress[m].hooksEvaluated => modelProgress'[m].hooksEvaluated
             /\ modelProgress[m].completed => modelProgress'[m].completed]_vars

\* a worker with its three flags set by three calls, after a fourth call that
\* wrote nothing, while the other worker has none set
C19_Witness ==
  /\ pc = "tracker"
  /\ calls = MaxCalls
  /\ Len(sink) = 3
  /\ Cardinality(DOMAIN modelProgress) = 2
  /\ \E m \in DOMAIN modelProgress :
       /\ modelProgress[m].hooksGenerated
       /\ modelProgress[m].hooksEvaluated
       /\ modelProgress[m].completed
       /\ \A i \in 1..3 : sink[i].modelId = m
       /\ \A n \in DOMAIN modelProgress \ {m} :
            /\ ~modelProgress[n].hooksGenerated
            /\ ~modelProgress[n].hooksEvaluated
            /\ ~modelProgress[n].completed

(***************************************************************************)
(* Calling a mutator twice in a row.                                       *)
(***************************************************************************)
\* the mutator calls a caller can make: name and argument
MutatorCalls ==
  ({"initComplete", "allModelsComplete", "analysisComplete", "pipelineComplete"}
     \X {Undefined})
  \cup ({"modelHooksGenerated", "modelHooksEvaluated", "modelComplete"} \X ModelIds)
  \cup ({"analysisStepComplete"} \X StepNameArgs)

\* the tracker after call c on tracker t
Apply(c, t) ==
  CASE c[1] = "initComplete" -> initComplete(t)
    [] c[1] = "modelHooksGenerated" -> modelHooksGenerated(t, c[2])
    [] c[1] = "modelHooksEvaluated" -> modelHooksEvaluated(t, c[2])
    [] c[1] = "modelComplete" -> modelComplete(t, c[2])
    [] c[1] = "allModelsComplete" -> allModelsComplete(t)
    [] c[1] = "analysisStepComplete" -> analysisStepComplete(t, c[2])
    [] c[1] = "analysisComplete" -> analysisComplete(t)
    [] c[1] = "pipelineComplete" -> pipelineComplete(t)

\* the ProgressState of tracker value t
ProgressState(t) ==
  <<t.phases, t.currentPhase, t.modelProgress, t.lastReportedProgress>>

\* from the current state, a second call of any mutator leaves the
\* ProgressState of the first and writes nothing but a 0 or a 100
TwiceAsOnce ==
  \A c \in MutatorCalls :
    \A once \in {Apply(c, Tracker)} :
      \A twice \in {Apply(c, once)} :
        /\ ProgressState(twice) = ProgressState(once)
        /\ \/ twice.sink = once.sink
           \/ /\ Len(twice.sink) = Len(once.sink) + 1
              /\ SubSeq(twice.sink, 1, Len(once.sink)) = once.sink
              /\ IsProgress(twice.sink[Len(twice.sink)])
              /\ twice.sink[Len(twice.sink)].progress \in {0, 100}

(***************************************************************************)
(* C20.  In every state of a run, calling any mutator twice in a row       *)
(* leaves the ProgressState as one call leaves it and the second call      *)
(* writes no progress message unless its value is 0 or 100; and the second *)
(* worker-evaluated notification of a worker, made when processModel       *)
(* resumes, whatever the other workers did since the first, writes nothing *)
(* and changes nothing in the tracker.                                     *)
(***************************************************************************)
C20_SecondNotificationIdle ==
  /\ []TwiceAsOnce
  /\ [][\A w \in Workers :
          ProcessModelResume(w) => UNCHANGED <<trackerVars, sink>>]_vars

\* a worker past its second worker-evaluated notification, with one
\* "Evaluated hooks for" message to its name, followed in the sink by the
\* first worker-evaluated message of the other worker
C20_Witness ==
  /\ Distinct(selectedModels)
  /\ \E w, v \in Workers :
       /\ w # v
       /\ wpc[w] = "formatted"
       /\ wpc[v] \in {"evaluated", "formatted"}
       /\ \E i, j \in ProgressIndices :
            /\ i < j
            /\ sink[i].step = "Evaluated hooks for"
            /\ sink[i].modelId = selectedModels[w]
            /\ sink[j].step = "Evaluated hooks for"
            /\ sink[j].modelId = selectedModels[v]
       /\ Cardinality({i \in ProgressIndices :
                         /\ sink[i].step = "Evaluated hooks for"
                         /\ sink[i].modelId = selectedModels[w]}) = 1

(***************************************************************************)
(* Reading the Analysis phase of a run.                                    *)
(***************************************************************************)
\* runAnalysis has returned: analysisComplete has written its message
AnalysisDone ==
  \E i \in ProgressIndices : sink[i].step = "Analysis complete, finalizing results..."

\* the progress messages written by analysisStepComplete(name)
StepMessages(name) ==
  {i \in ProgressIndices : sink[i].step = "Completed" /\ sink[i].args = <<name>>}

(***************************************************************************)
(* C21 (as claimed).  In a run with the options semantic, psychological    *)
(* and engagement, once the Analysis phase is over each of the four        *)
(* analysisStepComplete calls has written one progress message: 80 for     *)
(* semantic, 85 for psychological, 90 for engagement, 95 for comparative.  *)
(***************************************************************************)
C21_FourAnalysisSteps ==
  (analysisOptions = <<"semantic", "psychological", "engagement">> /\ AnalysisDone) =>
    \A k \in 1..4 :
      LET name == <<"semantic", "psychological", "engagement", "comparative">>[k]
      IN /\ Cardinality(StepMessages(name)) = 1
         /\ \A i \in StepMessages(name) : sink[i].progress = 75 + 5 * k

(***************************************************************************)
(* Reading the phases of a run.                                            *)
(***************************************************************************)
\* this step delivers a milestone of worker w: hooks generated, hooks
\* evaluated (twice) or model complete
WorkerMilestone(w) ==
  /\ wpc'[w] # wpc[w]
  /\ wpc'[w] \in {"evaluating", "evaluated", "formatted", "done"}

\* this step wrote a message of analysisStepComplete
AnalysisStepWritten ==
  \E i \in DOMAIN sink' \ DOMAIN sink : sink'[i].step = "Completed"

\* the tracker inside runAnalysis after its analysisStepComplete calls, before
\* analysisComplete
AfterAnalysisSteps(t) ==
  analysisStepComplete(
    AnalysisStepIfSelected(
      AnalysisStepIfSelected(
        AnalysisStepIfSelected(t, "semantic"),
        "psychological"),
      "engagement"),
    "comparative")

(***************************************************************************)
(* C23.  In a run, currentPhase goes through 0 (Initialization), 1 (Model  *)
(* Processing), 2 (Analysis), 3 (Finalization), 4 (complete), one at a     *)
(* time and never back; worker milestones are delivered only while it is 1 *)
(* and stays 1, and analysisStepComplete is called only while it is 2.     *)
(***************************************************************************)
C23_PhasesInOrder ==
  /\ [](currentPhase \in 0..4)
  /\ [](pc = "runAnalysis" =>
          /\ currentPhase = 2
          /\ AfterAnalysisSteps(Tracker).currentPhase = 2)
  /\ [][/\ currentPhase' \in {currentPhase, currentPhase + 1}
        /\ \A w \in Workers :
             WorkerMilestone(w) => currentPhase = 1 /\ currentPhase' = 1
        /\ AnalysisStepWritten => currentPhase = 2]_vars

\* a closed run that went through every phase, with three analysis steps and
\* a worker that delivered its milestones
C23_Witness ==
  /\ pc = "closed"
  /\ currentPhase = 4
  /\ \E w \in Workers : wpc[w] = "done"
  /\ Cardinality({i \in ProgressIndices : sink[i].step = "Completed"}) = 3
  /\ \A k \in 0..3 : \E i \in ProgressIndices :
       sink[i].progress = <<5, 75, 95, 100>>[k + 1]

(***************************************************************************)
(* C24.  In a run whose execute is fulfilled, the last two events of the   *)
(* sink are the progress 100 message of pipelineComplete and then the      *)
(* complete message, the stream is closed after the complete message was   *)
(* written, and nothing is written once a terminal message is in the sink. *)
(***************************************************************************)
C24_CompletedRunEnding ==
  /\ [](executePromise = "fulfilled" =>
          /\ Len(sink) >= 2
          /\ IsComplete(sink[Len(sink)])
          /\ IsProgress(sink[Len(sink) - 1])
          /\ sink[Len(sink) - 1].step = "Pipeline complete!"
          /\ sink[Len(sink) - 1].progress = 100)
  /\ [][/\ closeCount' # closeCount =>
             /\ TerminalIndices # {}
             /\ sink' = sink
             /\ closeCount = 0
        /\ TerminalIndices # {} => sink' = sink
        /\ closeCount > 0 => sink' = sink]_vars

\* a closed run that completed, in which a worker failed: the error message
\* of the worker is before the progress 100 message
C24_Witness ==
  /\ pc = "closed"
  /\ closeCount = 1
  /\ executePromise = "fulfilled"
  /\ IsComplete(sink[Len(sink)])
  /\ sink[Len(sink) - 1].progress = 100
  /\ \E i \in DOMAIN sink : sink[i].type = "error"
  /\ \E w \in Workers : Succeeded(w)

(***************************************************************************)
(* Reading the workers of a run.                                           *)
(***************************************************************************)
\* worker w has been launched and its promise has not settled
Running(w) == wpc[w] \in {"generating", "evaluating", "evaluated", "formatted"}

\* the workers whose mutator calls address the WorkerStatus entry of modelId
WritersOf(modelId) == {w \in Workers : selectedModels[w] = modelId}

(***************************************************************************)
(* C25 (as claimed).  For every selection the validation accepts, each     *)
(* WorkerStatus entry has exactly one worker that writes it, and no two    *)
(* workers running at the same time address the same entry.                *)
(***************************************************************************)
C25_OneWriterPerWorkerStatus ==
  /\ \A m \in DOMAIN modelProgress :
       (\E w \in WritersOf(m) : wpc[w] # "idle") => Cardinality(WritersOf(m)) = 1
  /\ \A w, v \in Workers :
       (w # v /\ Running(w) /\ Running(v)) => selectedModels[w] # selectedModels[v]

(***************************************************************************)
(* C27 (as claimed).  When a progress message with value 100 is in the     *)
(* sink, the terminal message of the run, once written, is a complete      *)
(* message and not the 'Pipeline failed' error.                            *)
(***************************************************************************)
C27_HundredThenComplete ==
  HundredIndices # {} => \A i \in TerminalIndices : IsComplete(sink[i])

(***************************************************************************)
(* Reading the clamp of calculateProgress.                                 *)
(***************************************************************************)
\* Math.round(totalProgress) of calculateProgress on tracker t
RoundedSum(t) == MathRound(TotalProgress(t))

\* the tracker as the mutator of this step has updated it, lastReportedProgress
\* still as before the call
Updated ==
  [phases |-> phases', currentPhase |-> currentPhase',
   modelProgress |-> modelProgress',
   lastReportedProgress |-> lastReportedProgress, sink |-> sink]

\* the trackers runAnalysis goes through, from the one it starts with; the
\* flags and the phase of each are those its mutator call computed with
RunAnalysisTrackers(t) ==
  LET t1 == AnalysisStepIfSelected(t, "semantic")
      t2 == AnalysisStepIfSelected(t1, "psychological")
      t3 == AnalysisStepIfSelected(t2, "engagement")
      t4 == analysisStepComplete(t3, "comparative")
  IN <<t, t1, t2, t3, t4, analysisComplete(t4)>>

(***************************************************************************)
(* C28.  In a run, at every mutator call that computes the progress, the   *)
(* rounded sum is at least lastReportedProgress, so the maximum of the two *)
(* that calculateProgress takes is the rounded sum itself: whatever the    *)
(* interleaving of the workers and whichever of them fail.                 *)
(***************************************************************************)
C28_ClampNeverActs ==
  /\ [](pc = "runAnalysis" =>
          \A ts \in {RunAnalysisTrackers(Tracker)} :
            \A k \in 1..(Len(ts) - 1) :
              RoundedSum(ts[k + 1]) >= ts[k].lastReportedProgress)
  /\ [][\A rounded \in {RoundedSum(Updated)} :
          /\ rounded >= lastReportedProgress
          /\ Max(lastReportedProgress, rounded) = rounded]_vars

\* two workers, one failed before the other completed: the completion raised
\* the rounded sum from 5 to 5 + 70 * 50 / 100 = 40, which was reported
C28_Witness ==
  /\ pc = "processModels"
  /\ Len(selectedModels) = 2
  /\ Distinct(selectedModels)
  /\ \E w, v \in Workers : wpc[w] = "done" /\ wpc[v] = "failed"
  /\ RoundedSum(Tracker) = 40
  /\ lastReportedProgress = 40
  /\ sink[Len(sink)].progress = 40

(***************************************************************************)
(* The route: POST validates the request body, answers 400 when the        *)
(* validation fails and otherwise creates the stream, which starts the     *)
(* run.  The run is that of LiveSpec.                                      *)
(***************************************************************************)
\* ids of UNIFIED_MODEL_CONFIGS whose supported flag is true
SupportedModelIds ==
  {"gpt4o", "gpt4o-mini", "o4-mini", "gpt-4.1", "claude-3-5-sonnet", "claude-3-5-haiku"}

\* selectedModels of request bodies: none, known ids, an id of no config
RawSelectionLists == SeqsOf(ModelIds \cup {"gpt-5"}, 0, MaxModels)

\* as ValidSelection, without .min(1)
ValidSelectionUpToSix(models) ==
  /\ Len(models) <= 6
  /\ \A i \in DOMAIN models : models[i] \in SupportedModelIds

\* the selectedModels rule of generateHookStreamRequestBodySchema
ValidSelection(models) ==
  /\ Len(models) >= 1
  /\ Len(models) <= 6
  /\ \A i \in DOMAIN models : models[i] \in SupportedModelIds

\* no ProgressTracker object: its fields as declared, no constructor has run
NoTracker ==
  /\ phases = << >>
  /\ currentPhase = 0
  /\ modelProgress = << >>
  /\ lastReportedProgress = 0

InitRoute ==
  /\ selectedModels \in RawSelectionLists
  /\ analysisOptions \in AnalysisOptionLists
  /\ NoTracker
  /\ sink = << >>
  /\ InitWorkers
  /\ closeCount = 0
  /\ executePromise = "pending"
  /\ calls = 0
  /\ pc = "validate"
  /\ InitStream
  /\ InitLegacy
  /\ InitClient

\* validateRequest returns success: false and POST returns the 400 response
ValidationFails ==
  /\ pc = "validate"
  /\ ~ValidSelection(selectedModels)
  /\ pc' = "badRequest"
  /\ UNCHANGED <<requestVars, streamVars, legacyVars, clientVars, trackerVars, sink,
                 closeCount, executePromise, workerVars, results, finalResults, calls>>

\* validateRequest returns success: true and POST goes on to createStream
ValidationSucceeds ==
  /\ pc = "validate"
  /\ ValidSelection(selectedModels)
  /\ pc' = "start"
  /\ UNCHANGED <<requestVars, streamVars, legacyVars, clientVars, trackerVars, sink,
                 closeCount, executePromise, workerVars, results, finalResults, calls>>

RouteNext == ValidationFails \/ ValidationSucceeds \/ LiveNext

RouteSpec == InitRoute /\ [][RouteNext]_vars

(***************************************************************************)
(* C22.  A request whose selection is empty, or names a model id that is   *)
(* not supported, never gets past the validation: POST answers it with the *)
(* 400 response, no ProgressTracker is created, no worker is launched,     *)
(* nothing is written to the sink and no stream is closed.                 *)
(***************************************************************************)
C22_EmptySelectionRejected ==
  (Len(selectedModels) = 0 \/ Range(selectedModels) \ SupportedModelIds # {}) =>
    /\ pc \in {"validate", "badRequest"}
    /\ NoTracker
    /\ \A w \in Workers : wpc[w] = "idle"
    /\ sink = << >>
    /\ executePromise = "pending"
    /\ closeCount = 0

\* the empty selection, answered with the 400 response
C22_Witness ==
  /\ Len(selectedModels) = 0
  /\ pc = "badRequest"
  /\ sink = << >>

(***************************************************************************)
(* The run when the consumer of the response stream goes away.  The        *)
(* stream is created with a start callback only; when its consumer cancels *)
(* it the stream is closed, and from then on controller.enqueue and        *)
(* controller.close throw a TypeError.  No send of StreamingService and no *)
(* mutator of ProgressTracker catches it.                                  *)
(***************************************************************************)
\* the consumer cancels while the run waits for a Generator, a Judge or the
\* upload
Cancel ==
  /\ ~cancelled
  /\ pc \in {"processModels", "put"}
  /\ cancelled' = TRUE
  /\ UNCHANGED <<requestVars, legacyVars, clientVars, trackerVars, sink, closeCount,
                 executePromise, pc, workerVars, results, finalResults, calls,
                 typeErrors>>

\* a step of the run while the consumer is attached
ConnectedStep == ~cancelled /\ LiveNext

\* a step of the run that calls neither enqueue nor close goes as before
QuietStep ==
  /\ cancelled
  /\ LiveNext
  /\ sink' = sink
  /\ closeCount' = closeCount

\* tracker t as its mutator leaves it when its sendProgress throws: the flags
\* are set, the message is not written and the value is not recorded
Unsent(t) == [t EXCEPT !.sink = sink, !.lastReportedProgress = lastReportedProgress]

\* the TypeError reaches the catch branch of the worker's callback, whose
\* sendError throws again: the worker's promise rejects.  If execute still
\* awaits Promise.all it rejects too and the catch handler of createStream
\* throws in its own sendError.  thrown: TypeErrors thrown inside the worker.
WorkerRejects(w, thrown) ==
  /\ wpc' = [wpc EXCEPT ![w] = "rejected"]
  /\ ReleaseLocals(w)
  /\ IF pc = "processModels"
     THEN /\ executePromise' = "rejected"
          /\ pc' = "finally"
          /\ typeErrors' = typeErrors + thrown + 1
     ELSE /\ UNCHANGED <<executePromise, pc>>
          /\ typeErrors' = typeErrors + thrown
  /\ UNCHANGED <<requestVars, legacyVars, clientVars, cancelled, closeCount, inflight,
                 processModelResult, modelResults, results, finalResults, calls>>

\* a mutator call of worker w whose message cannot be written
WorkerMutatorThrows(w, t) ==
  /\ cancelled
  /\ t.sink # sink
  /\ SetTracker(Unsent(t))
  /\ WorkerRejects(w, 2)

\* the Generator call answers: modelHooksGenerated throws
GeneratorReturnsThrows(w) ==
  /\ wpc[w] = "generating"
  /\ WorkerMutatorThrows(w, modelHooksGenerated(Tracker, selectedModels[w]))

\* Promise.all of evaluateHooks is fulfilled: modelHooksEvaluated throws
EvaluateHooksResumeThrows(w) ==
  /\ wpc[w] = "evaluating"
  /\ AllFulfilled(evaluations[w])
  /\ WorkerMutatorThrows(w, modelHooksEvaluated(Tracker, selectedModels[w]))

\* the worker's callback resumes after processModel: modelComplete throws
ModelCompleteThrows(w) ==
  /\ wpc[w] = "formatted"
  /\ WorkerMutatorThrows(w, modelComplete(Tracker, selectedModels[w]))

\* the Generator call fails, or evaluateHooks throws: the sendError of the
\* catch branch throws
WorkerCatchThrows(w) ==
  /\ cancelled
  /\ \/ wpc[w] = "generating"
     \/ wpc[w] = "evaluating" /\ AnyRejected(evaluations[w])
  /\ WorkerRejects(w, 1)
  /\ UNCHANGED <<trackerVars, sink>>

\* execute rejects with the TypeError and the catch handler of createStream
\* throws in its sendError
ExecuteRejects ==
  /\ executePromise' = "rejected"
  /\ pc' = "finally"
  /\ typeErrors' = typeErrors + 2
  /\ UNCHANGED <<requestVars, legacyVars, clientVars, cancelled, closeCount, workerVars,
                 finalResults, calls>>

\* Promise.all over the workers is fulfilled: the results are stored and
\* allModelsComplete throws
ProcessModelsResumeThrows ==
  /\ cancelled
  /\ pc = "processModels"
  /\ \A w \in Workers : wpc[w] \in {"done", "failed"}
  /\ results' = StoreResults(results, [w \in Workers |-> modelResults[w][1]])
  /\ \E t \in {allModelsComplete(Tracker)} :
       /\ t.sink # sink
       /\ SetTracker(Unsent(t))
  /\ ExecuteRejects

\* runAnalysis: the first of its mutator calls that has a message to write
\* throws
RunAnalysisThrows ==
  /\ cancelled
  /\ pc = "runAnalysis"
  /\ \E ts \in {RunAnalysisTrackers(Tracker)} :
       \E k \in 1..(Len(ts) - 1) :
         /\ ts[k + 1].sink # sink
         /\ ts[k].sink = sink
         /\ SetTracker(Unsent(ts[k + 1]))
  /\ UNCHANGED results
  /\ ExecuteRejects

\* the upload succeeds and sendComplete throws, or the upload fails: either
\* way execute rejects and the sendError of the catch handler throws
PutThrows ==
  /\ cancelled
  /\ pc = "put"
  /\ executePromise' = "rejected"
  /\ pc' = "finally"
  /\ \E thrown \in {1, 2} : typeErrors' = typeErrors + thrown
  /\ UNCHANGED <<requestVars, legacyVars, clientVars, cancelled, trackerVars, sink,
                 closeCount, workerVars, results, finalResults, calls>>

\* the finally handler of createStream: controller.close() throws
CloseThrows ==
  /\ cancelled
  /\ pc = "finally"
  /\ pc' = "closed"
  /\ typeErrors' = typeErrors + 1
  /\ UNCHANGED <<requestVars, legacyVars, clientVars, cancelled, trackerVars, sink,
                 closeCount, executePromise, workerVars, results, finalResults, calls>>

CancelNext ==
  \/ ConnectedStep
  \/ Cancel
  \/ QuietStep
  \/ \E w \in Workers : GeneratorReturnsThrows(w)
  \/ \E w \in Workers : EvaluateHooksResumeThrows(w)
  \/ \E w \in Workers : ModelCompleteThrows(w)
  \/ \E w \in Workers : WorkerCatchThrows(w)
  \/ ProcessModelsResumeThrows
  \/ RunAnalysisThrows
  \/ PutThrows
  \/ CloseThrows

CancelSpec == Init /\ [][CancelNext]_vars

(***************************************************************************)
(* C26 (as claimed).  Once the consumer has cancelled the stream, no send  *)
(* raises an error and no worker that was still running is turned into a   *)
(* failure by it.                                                          *)
(***************************************************************************)
C26_SendsAfterDisconnectAreNoOps ==
  cancelled => /\ typeErrors = 0
               /\ \A w \in Workers : wpc[w] # "rejected"


(***************************************************************************)
(* The legacy streaming route: concurrent requests of POST share the       *)
(* process-global comparativeAnalysisTemp.  Each request runs its models   *)
(* one after the other, may await judge.comparativeEvaluation, then builds *)
(* finalResults, waits 200 ms and enqueues the complete event.             *)
(***************************************************************************)
\* the modular route is not in use
NoStreamRun ==
  /\ selectedModels = << >>
  /\ analysisOptions = << >>
  /\ NoTracker
  /\ sink = << >>
  /\ InitWorkers
  /\ closeCount = 0
  /\ executePromise = "pending"
  /\ calls = 0
  /\ pc = "none"
  /\ InitStream

InitLegacyRoute == NoStreamRun /\ InitLegacy /\ InitClient

LegacyUnchanged ==
  UNCHANGED <<requestVars, streamVars, clientVars, trackerVars, sink, closeCount,
              executePromise, pc, workerVars, results, finalResults, calls>>

\* POST is called: the stream starts and the request awaits its first model
LegacyPost(r) ==
  /\ legacyPc[r] = "idle"
  /\ legacyPc' = [legacyPc EXCEPT ![r] = "processing"]
  /\ UNCHANGED <<comparativeAnalysisTemp, legacyCancelled, legacyComparative>>
  /\ LegacyUnchanged

\* the consumer of the request's stream cancels it while the request awaits
LegacyDisconnect(r) ==
  /\ legacyPc[r] \in {"processing", "comparing", "delay"}
  /\ ~legacyCancelled[r]
  /\ legacyCancelled' = [legacyCancelled EXCEPT ![r] = TRUE]
  /\ UNCHANGED <<comparativeAnalysisTemp, legacyPc, legacyComparative>>
  /\ LegacyUnchanged

\* const comparativeData = global.comparativeAnalysisTemp; delete it; the
\* enqueue of progress 95 and the start of the 200 ms delay
ReadAndDelete(r, slot) ==
  /\ legacyComparative' = [legacyComparative EXCEPT ![r] = slot]
  /\ comparativeAnalysisTemp' = {}
  /\ legacyPc' = [legacyPc EXCEPT ![r] = "delay"]

\* the enqueue throws on the cancelled stream: the outer catch, whose enqueue
\* throws again, and the finally; the slot is left as it is
LegacyThrows(r, slot) ==
  /\ comparativeAnalysisTemp' = slot
  /\ legacyPc' = [legacyPc EXCEPT ![r] = "ended"]
  /\ UNCHANGED legacyComparative

\* the last model call of the request returns.  compares: the request has two
\* models with a top hook each, so it awaits judge.comparativeEvaluation
LegacyModelsDone(r) ==
  /\ legacyPc[r] = "processing"
  /\ \E compares \in BOOLEAN :
       IF legacyCancelled[r]
       THEN LegacyThrows(r, comparativeAnalysisTemp)
       ELSE IF compares
            THEN /\ legacyPc' = [legacyPc EXCEPT ![r] = "comparing"]
                 /\ UNCHANGED <<comparativeAnalysisTemp, legacyComparative>>
            ELSE ReadAndDelete(r, comparativeAnalysisTemp)
  /\ UNCHANGED legacyCancelled
  /\ LegacyUnchanged

\* judge.comparativeEvaluation settles.  Fulfilled: the slot is set; rejected:
\* the inner catch logs it and the slot is not set.  Then the enqueue of the
\* final calculation step, then the read and the delete.
LegacyComparisonSettles(r) ==
  /\ legacyPc[r] = "comparing"
  /\ \E fulfilled \in BOOLEAN :
       \E slot \in {IF fulfilled THEN {r} ELSE comparativeAnalysisTemp} :
         IF legacyCancelled[r]
         THEN LegacyThrows(r, slot)
         ELSE ReadAndDelete(r, slot)
  /\ UNCHANGED legacyCancelled
  /\ LegacyUnchanged

\* the 200 ms delay ends: the complete event (or the throw of its enqueue)
\* and the finally
LegacyDelayEnds(r) ==
  /\ legacyPc[r] = "delay"
  /\ legacyPc' = [legacyPc EXCEPT ![r] = "ended"]
  /\ UNCHANGED <<comparativeAnalysisTemp, legacyCancelled, legacyComparative>>
  /\ LegacyUnchanged

LegacyNext ==
  \E r \in Runs :
    \/ LegacyPost(r)
    \/ LegacyDisconnect(r)
    \/ LegacyModelsDone(r)
    \/ LegacyComparisonSettles(r)
    \/ LegacyDelayEnds(r)

LegacySpec == InitLegacyRoute /\ [][LegacyNext]_vars

(***************************************************************************)
(* C29 (as claimed).  In every state of the legacy route (each request is  *)
(* suspended at an await or has ended) the global slot is empty, and the   *)
(* comparative data of a request's result was written by that request.     *)
(***************************************************************************)
C29_SlotEmptyBetweenSteps ==
  /\ comparativeAnalysisTemp = {}
  /\ \A r \in Runs : legacyComparative[r] \subseteq {r}


(***************************************************************************)
(* The client: handleGenerate of useHookGeneration (and of page.tsx)       *)
(* reading the response stream.  An element of unread is the type of one   *)
(* "data: " line.                                                          *)
(***************************************************************************)
\* what a response can carry: progress and error events in any order, then
\* at most one complete event (a 400 response carries no event at all)
ResponseStreams ==
  LET body == SeqsOf({"progress", "error"}, 0, MaxEvents)
  IN body \cup {Append(b, "complete") : b \in {x \in body : Len(x) < MaxEvents}}

InitClientRun ==
  /\ NoStreamRun
  /\ InitLegacy
  /\ isLoading = FALSE
  /\ clientPc = "idle"
  /\ unread \in ResponseStreams
  /\ currentStep = ""
  /\ clientResults = "null"

ClientUnchanged ==
  UNCHANGED <<requestVars, streamVars, legacyVars, trackerVars, sink, closeCount,
              executePromise, pc, workerVars, results, finalResults, calls>>

\* handleGenerate up to its await fetch(...)
HandleGenerate ==
  /\ clientPc = "idle"
  /\ isLoading' = TRUE
  /\ clientResults' = "null"
  /\ currentStep' = "Initializing..."
  /\ clientPc' = "fetch"
  /\ UNCHANGED unread
  /\ ClientUnchanged

\* fetch resolves with a response that has a body: getReader and first read
FetchReturns ==
  /\ clientPc = "fetch"
  /\ clientPc' = "reading"
  /\ UNCHANGED <<isLoading, unread, currentStep, clientResults>>
  /\ ClientUnchanged

\* the outer catch: setCurrentStep, setIsLoading(false)
OuterCatch ==
  /\ isLoading' = FALSE
  /\ currentStep' = "Generation failed. Please try again."
  /\ clientPc' = "caught"
  /\ UNCHANGED <<unread, clientResults>>
  /\ ClientUnchanged

\* fetch rejects, or the response has no body
FetchFails == clientPc = "fetch" /\ OuterCatch

\* reader.read() rejects
ReadFails == clientPc = "reading" /\ OuterCatch

\* reader.read() delivers an event.  progress: step and progress are set;
\* complete: the results are fetched from data.url if there is one, else
\* they are event.data and setIsLoading(false); error: the Error thrown is
\* caught by the catch around JSON.parse, which only logs it
ReadEvent ==
  /\ clientPc = "reading"
  /\ unread # << >>
  /\ unread' = Tail(unread)
  /\ CASE Head(unread) = "progress" ->
            /\ currentStep' = "event.step"
            /\ UNCHANGED <<isLoading, clientPc, clientResults>>
       [] Head(unread) = "complete" ->
            \E hasUrl \in BOOLEAN :
              IF hasUrl
              THEN /\ clientPc' = "blob"
                   /\ UNCHANGED <<isLoading, currentStep, clientResults>>
              ELSE /\ clientResults' = "event.data"
                   /\ isLoading' = FALSE
                   /\ UNCHANGED <<clientPc, currentStep>>
       [] Head(unread) = "error" ->
            UNCHANGED <<isLoading, clientPc, currentStep, clientResults>>
  /\ ClientUnchanged

\* the fetch of data.url settles: the results are set, or the inner catch
\* sets the step; then setIsLoading(false)
BlobSettles ==
  /\ clientPc = "blob"
  /\ \E fetched \in BOOLEAN :
       IF fetched
       THEN clientResults' = "resultsData" /\ UNCHANGED currentStep
       ELSE /\ currentStep' = "Failed to load results. Please try again."
            /\ UNCHANGED clientResults
  /\ isLoading' = FALSE
  /\ clientPc' = "reading"
  /\ UNCHANGED unread
  /\ ClientUnchanged

\* reader.read() returns done: break, handleGenerate returns
ReadDone ==
  /\ clientPc = "reading"
  /\ unread = << >>
  /\ clientPc' = "ended"
  /\ UNCHANGED <<isLoading, unread, currentStep, clientResults>>
  /\ ClientUnchanged

ClientNext ==
  \/ HandleGenerate
  \/ FetchReturns
  \/ FetchFails
  \/ ReadFails
  \/ ReadEvent
  \/ BlobSettles
  \/ ReadDone

ClientSpec == InitClientRun /\ [][ClientNext]_vars

(***************************************************************************)
(* C30 (as claimed).  Once the client has read the response stream to its  *)
(* end, isLoading is false, whatever the stream carried.                   *)
(***************************************************************************)
C30_LoadingClearedAtStreamEnd == clientPc = "ended" => ~isLoading
====
